---- MODULE Spec2Model ----
(***************************************************************************)
(* Model of the attribute certificate authority (ACA) of                  *)
(* src/hyperledger/fabric/membersrvc/ca/aca.go: the Attributes table, the  *)
(* refresh path (fetchAttributes, populateAttributes, populateAttribute)   *)
(* and the two public operations FetchAttributes and RequestAttributes.    *)
(*                                                                         *)
(* Instants are integers.  0 is the zero time.Time (an unset bound); the   *)
(* instants a source tuple or a request can name are 1..MaxTime.  The SQL  *)
(* comparison "validFrom < ?" is the order of the instants.                *)
(***************************************************************************)
EXTENDS Integers, Sequences, FiniteSets, Bags, TLC

\* ------------------------------------------------------------------ bounds
\* The greatest instant a source tuple or a request names.
MaxTime == 2
\* The greatest number of raw tuples the attribute source holds at one fetch.
MaxFeed == 2
\* The greatest number of names in one request's attribute list.
MaxReq == 2
\* The greatest number of upserts applied in a row to one store (SpecUpsert).
MaxApply == 2

\* ------------------------------------------------------------- data model
Procs == {"p1", "p2"}

\* AttributeOwner: the (id, affiliation) pair.
AttributeOwner(id, affiliation) == [id |-> id, affiliation |-> affiliation]

\* The identities an enrollment certificate's common name can parse to.
Callers == {AttributeOwner("u1", "org1"), AttributeOwner("u2", "org1")}

NoOwner == AttributeOwner("", "")

\* AttributePair: owner, attributeName, attributeValue, validFrom, validTo.
AttributePair(id, affiliation, name, value, from, to) ==
    [id |-> id, affiliation |-> affiliation, attributeName |-> name,
     attributeValue |-> value, validFrom |-> from, validTo |-> to]

\* The number of fields NewAttributePair requires of a source tuple.
MinFields == 6

\* A raw tuple of the attribute source: the number of ";"-separated fields
\* it has and its first six fields.  A date field is 0 for the empty
\* string, -1 for text that is not RFC3339, and t > 0 for the RFC3339 text
\* of instant t.
RawTuple(n, id, affiliation, name, value, from, to) ==
    [n |-> n, id |-> id, affiliation |-> affiliation, name |-> name,
     value |-> value, from |-> from, to |-> to]

\* The tuples the attribute source can hold (viper's "aca.attributes").
RawTuples ==
    { RawTuple(MinFields, "u1", "org1", "A", "v1", 1, 0),
      RawTuple(MinFields, "u1", "org1", "A", "v2", MaxTime, 0),
      RawTuple(MinFields, "u1", "org1", "A", "v2", 1, 0),
      RawTuple(MinFields, "u1", "org1", "B", "v1", 0, 1),
      RawTuple(MinFields, "u1", "org2", "B", "v2", 1, 0),
      RawTuple(MinFields, "u2", "org1", "A", "v1", 1, MaxTime),
      RawTuple(MinFields, "u2", "org1", "B", "v1", -1, 0),
      RawTuple(MinFields - 1, "u1", "org1", "B", "v2", 1, 0),
      RawTuple(MinFields, " u1 ", "org1", " B", "v2", 1, 0) }

\* time.Parse(time.RFC3339, dateStr) of a non-empty date field.
ParseRFC3339(d) == [err |-> d < 1, t |-> IF d < 1 THEN 0 ELSE d]

\* strings.TrimSpace of a field.
TrimSpace(str) ==
    IF str = " u1 " THEN "u1" ELSE IF str = " B" THEN "B" ELSE str

\* NewAttributePair(attributeVals, nil): an error for fewer than six fields
\* or a non-empty date that does not parse; an empty date leaves the zero time.
NewAttributePair(raw) ==
    LET from == IF raw.from = 0 THEN [err |-> FALSE, t |-> 0] ELSE ParseRFC3339(raw.from)
        to   == IF raw.to = 0 THEN [err |-> FALSE, t |-> 0] ELSE ParseRFC3339(raw.to)
    IN  IF raw.n < MinFields \/ from.err \/ to.err
        THEN [err |-> TRUE, pair |-> AttributePair("", "", "", "", 0, 0)]
        ELSE [err |-> FALSE,
              pair |-> AttributePair(TrimSpace(raw.id), TrimSpace(raw.affiliation),
                                     TrimSpace(raw.name), TrimSpace(raw.value),
                                     from.t, to.t)]

\* AttributePair.IsValidFor(date).
ValidToInclusive(attrPair, date) ==
    /\ attrPair.validFrom <= date
    /\ (attrPair.validTo = 0 \/ attrPair.validTo >= date)
IsValidFor(attrPair, date) ==
    /\ attrPair.validFrom <= date
    /\ (attrPair.validTo = 0 \/ attrPair.validTo > date)

\* ------------------------------------------------------ the Attributes table
\* The table is a bag of rows: the synthetic "row" primary key is the only
\* unique column, so two rows may hold the same (id, affiliation,
\* attributeName).  A row has the fields of an AttributePair.

\* WHERE id=? AND affiliation=? AND attributeName=?
KeyMatches(r, id, affiliation, name) ==
    r.id = id /\ r.affiliation = affiliation /\ r.attributeName = name

\* SELECT count(row) ... WHERE id=? AND affiliation=? AND attributeName=?
CountRows(t, id, affiliation, name) ==
    BagCardinality([r \in {x \in DOMAIN t : KeyMatches(x, id, affiliation, name)} |-> t[r]])

\* The last conjunct of the UPDATE's WHERE clause: validFrom < ?
StaleOverwrite(r, attr) == TRUE
UpdateIfNotNewer(r, attr) == r.validFrom <= attr.validFrom
UpdateWhere(r, attr) == r.validFrom < attr.validFrom

\* UPDATE Attributes SET validFrom, validTo, attributeValue WHERE key AND validFrom < ?
UpdateRows(t, attr) ==
    LET hit  == {r \in DOMAIN t :
                   /\ KeyMatches(r, attr.id, attr.affiliation, attr.attributeName)
                   /\ UpdateWhere(r, attr)}
        n    == BagCardinality([r \in hit |-> t[r]])
        rest == [r \in (DOMAIN t) \ hit |-> t[r]]
    IN  IF hit = {} THEN t ELSE rest (+) [r \in {attr} |-> n]

\* INSERT INTO Attributes (...) VALUES (...)
InsertRow(t, attr) == t (+) SetToBag({attr})

\* The branch of populateAttribute: count > 0.
AlwaysInsert(count) == FALSE
RowExists(count) == count > 0

\* The error of populateAttribute(tx, attr) when no statement fails: the
\* result of tx.Exec is discarded, so an UPDATE that changes no row is no error.
StaleIsError(t, attr) ==
    \E r \in DOMAIN t :
        /\ KeyMatches(r, attr.id, attr.affiliation, attr.attributeName)
        /\ ~(r.validFrom < attr.validFrom)
UpsertError(t, attr) == FALSE

\* populateAttribute(tx, attr) when no statement fails: the table as the
\* transaction sees it afterwards.
populateAttribute(t, attr) ==
    IF RowExists(CountRows(t, attr.id, attr.affiliation, attr.attributeName))
    THEN UpdateRows(t, attr)
    ELSE InsertRow(t, attr)

\* --------------------------------------------------------- the attribute source
\* viper.GetStringMapString("aca.attributes") holds the configuration read at
\* start-up: at most MaxFeed raw tuples.  A Go map is iterated in an order
\* that changes from one loop to the next, so one fetch sees the tuples in
\* any order.
Sources == {S \in SUBSET RawTuples : Cardinality(S) <= MaxFeed}

Orders(S) ==
    {f \in [1..Cardinality(S) -> S] : \A a, b \in 1..Cardinality(S) : f[a] = f[b] => a = b}

RECURSIVE SeqsUpTo(_, _)
SeqsUpTo(S, n) ==
    IF n = 0 THEN {<<>>}
    ELSE LET shorter == SeqsUpTo(S, n - 1)
         IN  shorter \cup {Append(s, x) : s \in {q \in shorter : Len(q) = n - 1}, x \in S}

\* The owner filter of fetchAttributes: skip a pair of another id or affiliation.
AnyOwner(attrPair, id, affiliation) == TRUE
OwnerMatches(attrPair, id, affiliation) ==
    ~(attrPair.id # id \/ attrPair.affiliation # affiliation)

\* fetchAttributes(id, affiliation): a tuple with fewer than six fields is
\* logged and skipped; a tuple that does not parse ends the fetch with an
\* error; the pairs of another owner are skipped.
RECURSIVE fetchAttributes(_, _, _)
fetchAttributes(feed, id, affiliation) ==
    IF feed = <<>> THEN [err |-> FALSE, attrs |-> <<>>]
    ELSE LET raw == Head(feed) IN
         IF raw.n >= MinFields
         THEN LET parsed == NewAttributePair(raw) IN
              IF parsed.err THEN [err |-> TRUE, attrs |-> <<>>]
              ELSE LET rest == fetchAttributes(Tail(feed), id, affiliation) IN
                   IF rest.err THEN rest
                   ELSE IF OwnerMatches(parsed.pair, id, affiliation)
                        THEN [err |-> FALSE, attrs |-> <<parsed.pair>> \o rest.attrs]
                        ELSE rest
         ELSE fetchAttributes(Tail(feed), id, affiliation)

\* ------------------------------------------------------------------ requests
Names == {"A", "B"}

\* The instant of a request that carries a timestamp (in.Ts); 0 is a nil Ts.
Now == 1

\* in.ECert: nil, bytes x509 cannot parse, a certificate whose common name
\* parseEnrollID rejects, or the enrollment certificate of a caller.
NilECert == [nil |-> TRUE, parses |-> FALSE, enrollOK |-> FALSE, owner |-> NoOwner]
ECerts ==
    {NilECert,
     [nil |-> FALSE, parses |-> FALSE, enrollOK |-> FALSE, owner |-> NoOwner],
     [nil |-> FALSE, parses |-> TRUE, enrollOK |-> FALSE, owner |-> NoOwner]}
    \cup {[nil |-> FALSE, parses |-> TRUE, enrollOK |-> TRUE, owner |-> o] : o \in Callers}

\* in.Signature: nil, or (r, s) made over the request with its signature
\* field blank by the key of the eca, of the tca, or of neither, or made by
\* the eca or tca key over the request with a signature field present.
Signatures == {[nil |-> TRUE, signer |-> "none", over |-> "none"]}
              \cup {[nil |-> FALSE, signer |-> k, over |-> "blank"] : k \in {"eca", "tca", "none"}}
              \cup {[nil |-> FALSE, signer |-> k, over |-> "present"] : k \in {"eca", "tca"}}

\* A request as its client builds it: the caller's enrollment certificate
\* and a signature made with the key of the authority the request is for.
GoodECert == [nil |-> FALSE, parses |-> TRUE, enrollOK |-> TRUE,
              owner |-> AttributeOwner("u1", "org1")]
NilSignature == [nil |-> TRUE, signer |-> "none", over |-> "none"]
SignedBy(k) == [nil |-> FALSE, signer |-> k, over |-> "blank"]

\* pb.ACAFetchAttrReq: the requests of each caller, the requests with another
\* certificate or signature, and the requests with nil fields.
FetchReq(ts, ecert, signature) == [Ts |-> ts, ECert |-> ecert, Signature |-> signature]
FetchReqs ==
    {FetchReq(Now, e, SignedBy("eca")) : e \in ECerts \ {NilECert}}
    \cup {FetchReq(Now, GoodECert, g) : g \in Signatures \ {NilSignature}}
    \cup {FetchReq(0, GoodECert, SignedBy("eca")), FetchReq(Now, NilECert, SignedBy("eca")),
          FetchReq(Now, GoodECert, NilSignature), FetchReq(0, NilECert, NilSignature)}

\* pb.ACAAttrReq: the requests of each caller for each list of names, the
\* requests with another certificate or signature, and the requests with
\* nil fields.
AttrReq(ts, id, ecert, signature, attributes) ==
    [Ts |-> ts, Id |-> id, ECert |-> ecert, Signature |-> signature, Attributes |-> attributes]
AttrReqs ==
    {AttrReq(Now, TRUE, [GoodECert EXCEPT !.owner = o], SignedBy("tca"), a) :
        o \in Callers, a \in SeqsUpTo(Names, MaxReq)}
    \cup {AttrReq(Now, TRUE, e, SignedBy("tca"), <<"A">>) : e \in ECerts \ {NilECert}}
    \cup {AttrReq(Now, TRUE, GoodECert, g, <<"A">>) : g \in Signatures \ {NilSignature}}
    \cup {AttrReq(0, TRUE, GoodECert, SignedBy("tca"), <<"A">>),
          AttrReq(Now, FALSE, GoodECert, SignedBy("tca"), <<"A">>),
          AttrReq(Now, TRUE, NilECert, SignedBy("tca"), <<"A">>),
          AttrReq(Now, TRUE, GoodECert, NilSignature, <<"A">>),
          AttrReq(0, FALSE, NilECert, NilSignature, <<"A">>)}

\* in.Signature = nil, after r and s have been read from it.
KeepSignature(in) == in
ClearSignature(in) == [in EXCEPT !.Signature = NilSignature]

\* hash.Write(proto.Marshal(in)); hash.Sum(nil): the digest tells a request
\* with a blank signature field from one that carries a signature.
Digest(in) == IF in.Signature.nil THEN "blank" ELSE "present"

\* ecdsa.Verify(pub, hash, r, s) with pub the key of the named root
\* certificate: (r, s) was made by that key over what was hashed.
Verify(root, signature, hash) == signature.signer = root /\ signature.over = hash

\* Which of the timestamp, the enrollment certificate and the signature a
\* request lacks.
Absent(in) ==
    (IF in.Ts = 0 THEN {"Ts"} ELSE {})
    \cup (IF in.ECert.nil THEN {"ECert"} ELSE {})
    \cup (IF in.Signature.nil THEN {"Signature"} ELSE {})

\* The nil checks of RequestAttributes: which-param-failed, else FULL_SUCCESSFUL.
NilCheckSkipsSignature(in) ==
    IF in.Ts = 0 THEN "FAIL_NIL_TS"
    ELSE IF ~in.Id THEN "FAIL_NIL_ID"
    ELSE IF in.ECert.nil THEN "FAIL_NIL_ECERT"
    ELSE "FULL_SUCCESSFUL"
NilCheck(in) ==
    IF in.Ts = 0 THEN "FAIL_NIL_TS"
    ELSE IF ~in.Id THEN "FAIL_NIL_ID"
    ELSE IF in.ECert.nil THEN "FAIL_NIL_ECERT"
    ELSE IF in.Signature.nil THEN "FAIL_NIL_SIGNATURE"
    ELSE "FULL_SUCCESSFUL"

\* The attrs map loop of RequestAttributes: a name seen before.
NoDuplicateCheck(attributes) == FALSE
HasDuplicate(attributes) ==
    \E i, j \in 1..Len(attributes) : i < j /\ attributes[i] = attributes[j]

\* ----------------------------------------------------------------- responses
NilCert == [nil |-> TRUE, id |-> "", exts |-> <<>>]
Cert(id, exts) == [nil |-> FALSE, id |-> id, exts |-> exts]

\* resp.Signature: nil, or (R, S) made with a private key over the
\* serialization of a response whose Signature field is nil.
NoSig == [signer |-> "none", status |-> "NONE", cert |-> NilCert]
SignatureOver(key, status, cert) == [signer |-> key, status |-> status, cert |-> cert]

\* A response and the error returned beside it to the RPC layer.
Response(status, cert, sig, err) ==
    [status |-> status, cert |-> cert, signed |-> sig # NoSig, sig |-> sig, err |-> err]

NoResp == Response("NONE", NilCert, NoSig, FALSE)

\* createRequestAttributeResponse(status, cert): the response signed with the
\* authority's key, or an unsigned FAILURE when proto.Marshal or
\* ECDSASignDirect fails.
SealOutcomes == {"signed", "marshalFails", "signFails"}
UnsignedKeepsStatus(status, cert, seal, err) ==
    IF seal = "signed"
    THEN Response(status, cert, SignatureOver("aca", status, cert), err)
    ELSE Response(status, cert, NoSig, err)
createRequestAttributeResponse(status, cert, seal, err) ==
    IF seal = "marshalFails" THEN Response("FAILURE", NilCert, NoSig, err)
    ELSE IF seal = "signFails" THEN Response("FAILURE", NilCert, NoSig, err)
    ELSE Response(status, cert, SignatureOver("aca", status, cert), err)

\* ACAAttribute, the base OID, and the last arc of the first extension.
ACAAttribute == <<1, 2, 3, 4, 5, 6, 10>>

\* IsAttributeOID(oid): same length as ACAAttribute, same arcs but the last,
\* and a last arc above ACAAttribute's.
AcceptsBase(oid) ==
    LET l == Len(oid) IN
    IF Len(ACAAttribute) # l THEN FALSE
    ELSE IF \E i \in 1..(l - 1) : ACAAttribute[i] # oid[i] THEN FALSE
    ELSE ACAAttribute[l] <= oid[l]
IsAttributeOID(oid) ==
    LET l == Len(oid) IN
    IF Len(ACAAttribute) # l THEN FALSE
    ELSE IF \E i \in 1..(l - 1) : ACAAttribute[i] # oid[i] THEN FALSE
    ELSE ACAAttribute[l] < oid[l]

FirstCount == 11

\* ToACAAttribute and the pkix.Extension that carries it.
Extension(count, a) ==
    [Id |-> <<1, 2, 3, 4, 5, 6, count>>, AttributeName |-> a.attributeName,
     AttributeValue |-> a.attributeValue, ValidFrom |-> a.validFrom, ValidTo |-> a.validTo]

\* addAttributesToExtensions: one extension per attribute whose proto.Marshal
\* succeeds (marshals: the indexes that do), numbered from FirstCount.
RECURSIVE addExts(_, _, _, _)
addExts(attributes, i, count, marshals) ==
    IF i > Len(attributes) THEN <<>>
    ELSE IF i \in marshals
         THEN <<Extension(count, attributes[i])>> \o addExts(attributes, i + 1, count + 1, marshals)
         ELSE addExts(attributes, i + 1, count, marshals)

addAttributesToExtensions(attributes, marshals) == addExts(attributes, 1, FirstCount, marshals)

\* The classification at the end of RequestAttributes.
ClassifyFullFirst(verifyCounter, count) ==
    IF count = verifyCounter THEN "FULL_SUCCESSFUL"
    ELSE IF verifyCounter = 0 THEN "NO_ATTRIBUTES_FOUND"
    ELSE "PARTIAL_SUCCESSFUL"
Classify(verifyCounter, count) ==
    IF verifyCounter = 0 THEN "NO_ATTRIBUTES_FOUND"
    ELSE IF count = verifyCounter THEN "FULL_SUCCESSFUL"
    ELSE "PARTIAL_SUCCESSFUL"

\* ---------------------------------------------------------------------- state
VARIABLES
    source,     \* the raw tuples of the attribute source (the configuration)
    table,      \* the committed rows of the Attributes table (a bag)
    mutex,      \* the process-wide mutex: its holder, or "free"
    tx,         \* per call: the open transaction and the rows it sees
    loc,        \* per call: the handler's position and local variables
    committed,  \* history: the attribute pairs of every committed batch
    uHist,      \* SpecUpsert: the stores, from the first to the current one
    uLog,       \* SpecUpsert: the pairs applied so far
    uErr,       \* SpecUpsert: whether each application returned an error
    vRec,       \* SpecValid: the record IsValidFor is called on
    vLog,       \* SpecValid: the dates asked so far and the answers
    xIn,        \* SpecExt: the matched attributes and which of them marshal
    xExts,      \* SpecExt: the extensions addAttributesToExtensions returned
    xLog        \* SpecExt: the identifiers given to IsAttributeOID, the answers

NoInput == [attributes |-> <<>>, marshals |-> {}, added |-> FALSE]

vars == <<source, table, mutex, tx, loc, committed, uHist, uLog, uErr, vRec, vLog, xIn, xExts, xLog>>

\* tx: whether a transaction is open, the rows it sees, and the committed
\* rows when it began.
NoTx == [open |-> FALSE, rows |-> EmptyBag, base |-> EmptyBag]

\* A call that has not started.  names: in.Attributes, kept from the
\* duplicate check on; steps: what the handler has done so far; failed: the
\* step that returned an error, else "none"; failedAt: the index of the
\* batch record whose upsert failed, else 0; signer: the key that made
\* in.Signature and over: what it was made over; hashed: the form of the
\* request the handler hashes; view: what each lookup of the matching loop
\* that did not fail was shown by the store; errs: the names whose lookup
\* failed; absent: which of in.Ts, in.ECert, in.Signature are nil;
\* refreshed: the records the call's own refresh committed.
Idle ==
    [pc |-> "idle", op |-> "none", names |-> <<>>, owner |-> NoOwner,
     batch |-> <<>>, k |-> 0, i |-> 0, attributes |-> <<>>, steps |-> {},
     failed |-> "none", failedAt |-> 0, signer |-> "none",
     over |-> "none", hashed |-> "none", view |-> {}, errs |-> {}, absent |-> {}, refreshed |-> {}, resp |-> NoResp]

\* The locals of a call one of whose steps has returned an error.
Fail(l, step) == [l EXCEPT !.failed = step]

Init ==
    /\ source \in Sources
    /\ table = EmptyBag
    /\ mutex = "free"
    /\ tx = [p \in Procs |-> NoTx]
    /\ loc = [p \in Procs |-> Idle]
    /\ committed = {}
    /\ uHist = <<>>
    /\ uLog = <<>>
    /\ uErr = <<>>
    /\ vRec = AttributePair("", "", "", "", 0, 0)
    /\ vLog = <<>>
    /\ xIn = NoInput
    /\ xExts = <<>>
    /\ xLog = <<>>

\* The handler returns: its response, and what it did on the way.
Return(p, l, resp, steps) ==
    loc' = [loc EXCEPT ![p] = [l EXCEPT !.pc = "done", !.resp = resp,
                                         !.steps = l.steps \cup steps,
                                         !.batch = <<>>, !.k = 0, !.i = 0]]

\* RequestAttributes returns createRequestAttributeResponse(status, cert) and
\* err; proto.Marshal fails, or ECDSASignDirect fails, or the response is signed.
Respond(p, l, status, cert, err, steps) ==
    \E seal \in SealOutcomes :
        Return(p, l, createRequestAttributeResponse(status, cert, seal, err), steps)

\* A FetchAttributes response: no certificate and no signature.
FetchResp(status, err) == Response(status, NilCert, NoSig, err)

\* The trust root each operation verifies against: getECACertificate for
\* FetchAttributes, getTCACertificate for RequestAttributes.
SwappedRoot(op) == IF op = "Fetch" THEN "tca" ELSE "eca"
TrustRoot(op) == IF op = "Fetch" THEN "eca" ELSE "tca"

\* The error returned beside the FAILURE response when the signature does
\* not verify: nil in FetchAttributes, "Signature does not verify" in
\* RequestAttributes.
VerifyFailureIsError(op) == op = "Request"

\* What the handler has done once fetchAttributes has returned.
Fetched == {"root", "verify", "parseCert", "parseEnrollID", "fetch"}

\* The calls whose handler is followed from request to response, and the
\* concurrent calls followed only through their refresh: whichever operation
\* a concurrent call is, fetchAndPopulateAttributes is all of it that reads
\* or writes what another call can see.
Handlers == {"p1"}
Refreshers == {"p2"}

\* ------------------------------------------------------------ FetchAttributes
\* FetchAttributes up to the call of populateAttributes: the nil checks, the
\* eca root, the signature, the caller's certificate and identity, the fetch.
FetchAttributes(p) ==
    /\ p \in Handlers
    /\ loc[p].pc = "idle"
    /\ UNCHANGED <<source, table, mutex, tx, committed, uHist, uLog, uErr, vRec, vLog, xIn, xExts, xLog>>
    /\ \E in \in FetchReqs :
         LET l == [Idle EXCEPT !.op = "Fetch", !.signer = in.Signature.signer,
                              !.over = in.Signature.over,
                              !.hashed = Digest(ClearSignature(in)),
                              !.absent = Absent(in)] IN
         IF in.Ts = 0 \/ in.ECert.nil \/ in.Signature.nil
         THEN Return(p, Fail(l, "nil"), FetchResp("FAILURE", FALSE), {})
         ELSE \E rootOK \in BOOLEAN :
           IF ~rootOK
           THEN Return(p, Fail(l, "root"), FetchResp("FAILURE", TRUE), {"root"})
           ELSE IF ~Verify(TrustRoot("Fetch"), in.Signature, Digest(ClearSignature(in)))
           THEN Return(p, Fail(l, "verify"), FetchResp("FAILURE", VerifyFailureIsError("Fetch")),
                       {"root", "verify"})
           ELSE IF ~in.ECert.parses
           THEN Return(p, Fail(l, "parseCert"), FetchResp("FAILURE", TRUE),
                       {"root", "verify", "parseCert"})
           ELSE IF ~in.ECert.enrollOK
           THEN Return(p, Fail(l, "parseEnrollID"), FetchResp("FAILURE", TRUE),
                       {"root", "verify", "parseCert", "parseEnrollID"})
           ELSE \E feed \in Orders(source) :
             LET o == in.ECert.owner
                 f == fetchAttributes(feed, o.id, o.affiliation)
             IN  IF f.err
                 THEN Return(p, Fail([l EXCEPT !.owner = o], "fetch"),
                             FetchResp("FAILURE", TRUE), Fetched)
                 ELSE loc' = [loc EXCEPT ![p] = [l EXCEPT !.pc = "lock", !.owner = o,
                                                          !.batch = f.attrs, !.steps = Fetched]]

\* ---------------------------------------------------------- RequestAttributes
\* RequestAttributes up to the call of populateAttributes: the nil checks, the
\* duplicate check, the tca root, the signature, the caller's certificate and
\* identity, the fetch.
RequestAttributes(p) ==
    /\ p \in Handlers
    /\ loc[p].pc = "idle"
    /\ UNCHANGED <<source, table, mutex, tx, committed, uHist, uLog, uErr, vRec, vLog, xIn, xExts, xLog>>
    /\ \E in \in AttrReqs :
         LET l == [Idle EXCEPT !.op = "Request", !.signer = in.Signature.signer,
                                  !.over = in.Signature.over,
                                  !.hashed = Digest(ClearSignature(in)),
                                  !.absent = Absent(in)] IN
         IF NilCheck(in) # "FULL_SUCCESSFUL"
         THEN Respond(p, Fail(l, "nil"), NilCheck(in), NilCert, FALSE, {})
         ELSE IF HasDuplicate(in.Attributes)
         THEN Respond(p, Fail([l EXCEPT !.names = in.Attributes], "duplicate"),
                      "BAD_REQUEST", NilCert, FALSE, {})
         ELSE \E rootOK \in BOOLEAN :
           IF ~rootOK
           THEN Respond(p, Fail(l, "root"), "FAILURE", NilCert, TRUE, {"root"})
           ELSE IF ~Verify(TrustRoot("Request"), in.Signature, Digest(ClearSignature(in)))
           THEN Respond(p, Fail(l, "verify"), "FAILURE", NilCert, VerifyFailureIsError("Request"),
                        {"root", "verify"})
           ELSE IF ~in.ECert.parses
           THEN Respond(p, Fail(l, "parseCert"), "FAILURE", NilCert, TRUE,
                        {"root", "verify", "parseCert"})
           ELSE IF ~in.ECert.enrollOK
           THEN Respond(p, Fail(l, "parseEnrollID"), "FAILURE", NilCert, TRUE,
                        {"root", "verify", "parseCert", "parseEnrollID"})
           ELSE \E feed \in Orders(source) :
             LET o == in.ECert.owner
                 f == fetchAttributes(feed, o.id, o.affiliation)
             IN  IF f.err
                 THEN Respond(p, Fail([l EXCEPT !.owner = o], "fetch"), "FAILURE", NilCert, TRUE,
                              Fetched)
                 ELSE loc' = [loc EXCEPT ![p] = [l EXCEPT !.pc = "lock", !.owner = o,
                                                          !.names = in.Attributes,
                                                          !.batch = f.attrs, !.steps = Fetched]]

\* ------------------------------------------------- fetchAndPopulateAttributes
\* fetchAndPopulateAttributes(id, affiliation) of a concurrent call, up to
\* the call of populateAttributes: an error of fetchAttributes ends it.
FetchAndPopulate(p) ==
    /\ p \in Refreshers
    /\ loc[p].pc = "idle"
    /\ UNCHANGED <<source, table, mutex, tx, committed, uHist, uLog, uErr, vRec, vLog, xIn, xExts, xLog>>
    /\ \E o \in Callers, feed \in Orders(source) :
         LET f == fetchAttributes(feed, o.id, o.affiliation) IN
         IF f.err
         THEN UNCHANGED loc
         ELSE loc' = [loc EXCEPT ![p] = [Idle EXCEPT !.pc = "lock", !.op = "Refresh",
                                                     !.owner = o, !.batch = f.attrs,
                                                     !.steps = {"fetch"}]]

\* --------------------------------------------------------- populateAttributes
\* mutex.Lock(): the caller waits until the mutex is free.
NoMutex(m) == TRUE
MutexFree(m) == m = "free"

\* tx.Rollback(): the table keeps its committed rows.
RollbackKeepsWrites(t, x) == x.rows
AfterRollback(t, x) == t

\* tx.Commit(): the rows the transaction sees become the committed rows.
CommitDropsWrites(t, x) == t
AfterCommit(t, x) == x.rows

\* populateAttributes returned an error: fetchAndPopulateAttributes passes it
\* on and the operation answers FAILURE with that error.
PopulateErrorDropped(p, l) ==
    loc' = [loc EXCEPT ![p] = [l EXCEPT !.pc = "match", !.i = 1, !.batch = <<>>, !.k = 0]]
PopulateFailed(p, l) ==
    IF l.op = "Refresh" THEN loc' = [loc EXCEPT ![p] = Idle]
    ELSE IF l.op = "Fetch" THEN Return(p, l, FetchResp("FAILURE", TRUE), {})
    ELSE Respond(p, l, "FAILURE", NilCert, TRUE, {})

\* mutex.Lock(); tx, dberr := aca.db.Begin()
PopulateBegin(p) ==
    /\ loc[p].pc = "lock"
    /\ MutexFree(mutex)
    /\ UNCHANGED <<source, table, committed, uHist, uLog, uErr, vRec, vLog, xIn, xExts, xLog>>
    /\ \/ /\ mutex' = p
          /\ tx' = [tx EXCEPT ![p] = [open |-> TRUE, rows |-> table, base |-> table]]
          /\ loc' = [loc EXCEPT ![p].pc = "tx", ![p].k = 1,
                                ![p].steps = @ \cup {"populate"}]
       \/ /\ UNCHANGED <<mutex, tx>>
          /\ PopulateFailed(p, Fail(loc[p], "populate"))

\* One turn of the loop of populateAttributes: populateAttribute(tx, attr),
\* and on its error tx.Rollback() and the deferred mutex.Unlock().
PopulateStep(p) ==
    /\ loc[p].pc = "tx"
    /\ loc[p].k <= Len(loc[p].batch)
    /\ UNCHANGED <<source, committed, uHist, uLog, uErr, vRec, vLog, xIn, xExts, xLog>>
    /\ \/ /\ ~UpsertError(tx[p].rows, loc[p].batch[loc[p].k])
          /\ tx' = [tx EXCEPT ![p].rows = populateAttribute(@, loc[p].batch[loc[p].k])]
          /\ loc' = [loc EXCEPT ![p].k = @ + 1]
          /\ UNCHANGED <<table, mutex>>
       \/ /\ table' = AfterRollback(table, tx[p])
          /\ tx' = [tx EXCEPT ![p] = NoTx]
          /\ mutex' = IF mutex = p THEN "free" ELSE mutex
          /\ PopulateFailed(p, Fail([loc[p] EXCEPT !.failedAt = loc[p].k], "populate"))

\* After the loop: tx.Commit() and the deferred mutex.Unlock().  A committed
\* refresh ends FetchAttributes with SUCCESS and takes RequestAttributes to
\* its matching loop.
PopulateCommit(p) ==
    /\ loc[p].pc = "tx"
    /\ loc[p].k > Len(loc[p].batch)
    /\ UNCHANGED <<source, uHist, uLog, uErr, vRec, vLog, xIn, xExts, xLog>>
    /\ tx' = [tx EXCEPT ![p] = NoTx]
    /\ mutex' = IF mutex = p THEN "free" ELSE mutex
    /\ \/ /\ table' = AfterCommit(table, tx[p])
          /\ committed' = committed \cup {loc[p].batch[j] : j \in 1..Len(loc[p].batch)}
          /\ IF loc[p].op = "Refresh"
             THEN loc' = [loc EXCEPT ![p] = Idle]
             ELSE IF loc[p].op = "Fetch"
             THEN Return(p, loc[p], FetchResp("SUCCESS", FALSE), {"commit"})
             ELSE loc' = [loc EXCEPT ![p].pc = "match", ![p].i = 1,
                                     ![p].batch = <<>>, ![p].k = 0,
                                     ![p].steps = @ \cup {"commit"},
                                     ![p].refreshed =
                                         {loc[p].batch[j] : j \in 1..Len(loc[p].batch)}]
       \/ /\ UNCHANGED <<table, committed>>
          /\ PopulateFailed(p, Fail(loc[p], "populate"))

\* -------------------------------------------------------------- findAttribute
\* findAttribute(owner, attributeName) when neither query fails: nothing for a
\* count of 0, else the row QueryRow scans (the first the SELECT yields).
findAnyOwner(t, owner, attributeName) ==
    {r \in DOMAIN t : r.attributeName = attributeName}
findAttribute(t, owner, attributeName) ==
    IF CountRows(t, owner.id, owner.affiliation, attributeName) = 0
    THEN {}
    ELSE {r \in DOMAIN t : KeyMatches(r, owner.id, owner.affiliation, attributeName)}

\* A query of findAttribute failed: it returns (nil, err), the loop drops err
\* and goes on with the next name.
LookupErrorReturned(p, name) ==
    Respond(p, Fail([loc[p] EXCEPT !.errs = @ \cup {name}], "find"),
            "FAILURE", NilCert, TRUE, {"find"})
LookupFailed(p, name) ==
    loc' = [loc EXCEPT ![p].i = @ + 1, ![p].steps = @ \cup {"find"},
                       ![p].errs = @ \cup {name}]

\* One turn of the matching loop of RequestAttributes: the error of
\* findAttribute is dropped, and a nil pair is not counted.
FindAttribute(p) ==
    /\ loc[p].pc = "match"
    /\ loc[p].i <= Len(loc[p].names)
    /\ UNCHANGED <<source, table, mutex, tx, committed, uHist, uLog, uErr, vRec, vLog, xIn, xExts, xLog>>
    /\ LET name == loc[p].names[loc[p].i]
           found == findAttribute(table, loc[p].owner, name)
           seen == [name |-> name, rows |-> found]
       IN
       \/ /\ found = {}
          /\ loc' = [loc EXCEPT ![p].i = @ + 1, ![p].steps = @ \cup {"find"},
                                ![p].view = @ \cup {seen}]
       \/ \E verifiedPair \in found :
            loc' = [loc EXCEPT ![p].i = @ + 1, ![p].steps = @ \cup {"find"},
                               ![p].view = @ \cup {seen},
                               ![p].attributes = Append(@, verifiedPair)]
       \/ LookupFailed(p, name)

\* After the matching loop: the extensions, the certificate, the status.
IssueCertificate(p) ==
    /\ loc[p].pc = "match"
    /\ loc[p].i > Len(loc[p].names)
    /\ UNCHANGED <<source, table, mutex, tx, committed, uHist, uLog, uErr, vRec, vLog, xIn, xExts, xLog>>
    /\ \E marshals \in SUBSET (1..Len(loc[p].attributes)), certOK \in BOOLEAN :
         LET l == loc[p]
             extensions == addAttributesToExtensions(l.attributes, marshals)
             verifyCounter == Len(l.attributes)
             count == Len(l.names)
         IN  IF ~certOK
             THEN Respond(p, Fail(l, "newCert"), "FAILURE", NilCert, TRUE,
                          {"extensions", "newCert"})
             ELSE Respond(p, l, Classify(verifyCounter, count),
                          Cert(l.owner.id, extensions), FALSE, {"extensions", "newCert"})

\* The RPC layer takes the response; the handler's locals are gone.
Deliver(p) ==
    /\ loc[p].pc = "done"
    /\ loc' = [loc EXCEPT ![p] = Idle]
    /\ UNCHANGED <<source, table, mutex, tx, committed, uHist, uLog, uErr, vRec, vLog, xIn, xExts, xLog>>

Next ==
    \E p \in Procs :
        \/ FetchAttributes(p)
        \/ RequestAttributes(p)
        \/ FetchAndPopulate(p)
        \/ PopulateBegin(p)
        \/ PopulateStep(p)
        \/ PopulateCommit(p)
        \/ FindAttribute(p)
        \/ IssueCertificate(p)
        \/ Deliver(p)

Spec == Init /\ [][Next]_vars

\* ------------------------------------------------------------------ SpecUpsert
\* populateAttribute on its own: a store the refresh path can have built (at
\* most one row per key), then up to MaxApply upserts in a row.
UpsertPairs ==
    {NewAttributePair(raw).pair :
        raw \in {x \in RawTuples : x.n = MinFields /\ ~NewAttributePair(x).err}}

UpsertStores ==
    {SetToBag(S) : S \in {T \in SUBSET UpsertPairs :
        \A a, b \in T :
            KeyMatches(a, b.id, b.affiliation, b.attributeName) => a = b}}

UInit ==
    /\ source = {}
    /\ table = EmptyBag
    /\ mutex = "free"
    /\ tx = [p \in Procs |-> NoTx]
    /\ loc = [p \in Procs |-> Idle]
    /\ committed = {}
    /\ uHist \in {<<t>> : t \in UpsertStores}
    /\ uLog = <<>>
    /\ uErr = <<>>
    /\ vRec = AttributePair("", "", "", "", 0, 0)
    /\ vLog = <<>>
    /\ xIn = NoInput
    /\ xExts = <<>>
    /\ xLog = <<>>

UApply ==
    /\ Len(uLog) < MaxApply
    /\ \E attr \in UpsertPairs :
         /\ uHist' = Append(uHist, populateAttribute(uHist[Len(uHist)], attr))
         /\ uLog' = Append(uLog, attr)
         /\ uErr' = Append(uErr, UpsertError(uHist[Len(uHist)], attr))
    /\ UNCHANGED <<source, table, mutex, tx, loc, committed, vRec, vLog, xIn, xExts, xLog>>

UNext == UApply

SpecUpsert == UInit /\ [][UNext]_vars

\* ------------------------------------------------------------------- SpecValid
\* IsValidFor on its own: a record with any validity window, then up to
\* MaxApply calls with any date.
ValidityPairs ==
    {AttributePair("u1", "org1", n, "v1", from, to) :
        n \in Names, from \in 0..MaxTime, to \in 0..MaxTime}

VInit ==
    /\ source = {}
    /\ table = EmptyBag
    /\ mutex = "free"
    /\ tx = [p \in Procs |-> NoTx]
    /\ loc = [p \in Procs |-> Idle]
    /\ committed = {}
    /\ uHist = <<>>
    /\ uLog = <<>>
    /\ uErr = <<>>
    /\ vRec \in ValidityPairs
    /\ vLog = <<>>
    /\ xIn = NoInput
    /\ xExts = <<>>
    /\ xLog = <<>>

VCall ==
    /\ Len(vLog) < MaxApply
    /\ \E date \in 0..MaxTime :
         vLog' = Append(vLog, [date |-> date, valid |-> IsValidFor(vRec, date)])
    /\ UNCHANGED <<source, table, mutex, tx, loc, committed, uHist, uLog, uErr, vRec, xIn, xExts, xLog>>

VNext == VCall

SpecValid == VInit /\ [][VNext]_vars

\* ------------------------------------------------------------------ SpecExt
\* addAttributesToExtensions on every list of up to MaxExt matched attributes
\* with every choice of the attributes whose proto.Marshal succeeds, and
\* IsAttributeOID on the identifiers produced, on ACAAttribute itself, and on
\* identifiers of another length, another prefix or a lower last arc.
MaxExt == 3

ExtPairs == {AttributePair("u1", "org1", n, "v1", 1, 0) : n \in Names}

ProbeOIDs ==
    {ACAAttribute,
     <<1, 2, 3, 4, 5, 6>>, <<1, 2, 3, 4, 5, 6, 11, 1>>, <<>>,
     <<1, 2, 3, 4, 5, 7, 11>>, <<2, 2, 3, 4, 5, 6, 11>>, <<1, 2, 3, 4, 5, 6, 9>>}
    \cup {<<1, 2, 3, 4, 5, 6, FirstCount + i>> : i \in 0..MaxExt}

XInit ==
    /\ source = {}
    /\ table = EmptyBag
    /\ mutex = "free"
    /\ tx = [p \in Procs |-> NoTx]
    /\ loc = [p \in Procs |-> Idle]
    /\ committed = {}
    /\ uHist = <<>>
    /\ uLog = <<>>
    /\ uErr = <<>>
    /\ vRec = AttributePair("", "", "", "", 0, 0)
    /\ vLog = <<>>
    /\ \E attributes \in SeqsUpTo(ExtPairs, MaxExt) :
         \E marshals \in SUBSET (1..Len(attributes)) :
            xIn = [attributes |-> attributes, marshals |-> marshals, added |-> FALSE]
    /\ xExts = <<>>
    /\ xLog = <<>>

XAdd ==
    /\ ~xIn.added
    /\ xExts' = addAttributesToExtensions(xIn.attributes, xIn.marshals)
    /\ xIn' = [xIn EXCEPT !.added = TRUE]
    /\ UNCHANGED <<source, table, mutex, tx, loc, committed, uHist, uLog, uErr,
                   vRec, vLog, xLog>>

XIsAttributeOID ==
    /\ xIn.added
    /\ Len(xLog) < MaxApply
    /\ \E oid \in ProbeOIDs \cup {xExts[i].Id : i \in 1..Len(xExts)} :
         xLog' = Append(xLog, [oid |-> oid, is |-> IsAttributeOID(oid)])
    /\ UNCHANGED <<source, table, mutex, tx, loc, committed, uHist, uLog, uErr,
                   vRec, vLog, xIn, xExts>>

XNext == XAdd \/ XIsAttributeOID

SpecExt == XInit /\ [][XNext]_vars

\* ------------------------------------------------------------------- claims
SameKey(a, b) == KeyMatches(a, b.id, b.affiliation, b.attributeName)

\* The rows of t that hold the key of attr.
RowsOf(t, attr) == {r \in DOMAIN t : SameKey(r, attr)}

\* uLog[1] and uLog[2] are two records of one key with different validFrom,
\* applied to a store that held no row of that key.
TwoVersionsApplied ==
    /\ Len(uLog) >= 2
    /\ SameKey(uLog[1], uLog[2])
    /\ uLog[1].validFrom # uLog[2].validFrom
    /\ RowsOf(uHist[1], uLog[1]) = {}

\* C1: after two records of one key with different validFrom have been
\* applied, in either order, to a store that held no row of the key, the
\* store holds exactly one row of the key and it is the record with the
\* later validFrom (its value, validFrom and validTo).
C1_UpsertMonotone ==
    TwoVersionsApplied =>
        LET newer == IF uLog[1].validFrom < uLog[2].validFrom THEN uLog[2] ELSE uLog[1]
        IN  /\ RowsOf(uHist[3], newer) = {newer}
            /\ CopiesIn(newer, uHist[3]) = 1

\* C1 witness: the newer record was applied first and the stale one second.
C1_StaleAppliedLast ==
    /\ TwoVersionsApplied
    /\ Len(uLog) = 2
    /\ uLog[1].validFrom > uLog[2].validFrom
    /\ uLog[1].attributeValue # uLog[2].attributeValue
    /\ RowsOf(uHist[3], uLog[1]) = {uLog[1]}

\* C2: when the upsert of a record of a batch fails, the rollback leaves the
\* committed table as it was when populateAttributes began (none of the
\* records already applied in the transaction is visible) and the
\* transaction is closed.
C2_BatchAtomicity ==
    [][\A p \in Procs :
         (/\ loc[p].pc = "tx"
          /\ loc[p].k <= Len(loc[p].batch)
          /\ loc'[p].pc # "tx")
         => (/\ table' = tx[p].base
             /\ table' = table
             /\ ~tx'[p].open
             /\ mutex' = "free")]_vars

\* C2 witness: the second record of a batch failed after the first had been
\* inserted in the transaction, and the table is still empty.
C2_RolledBackAfterFirst ==
    \E p \in Procs :
        /\ loc[p].pc = "done"
        /\ loc[p].failed = "populate"
        /\ loc[p].failedAt = 2
        /\ table = EmptyBag
        /\ ~tx[p].open

\* The committed writes of the key of w.
CommittedOf(w) == {c \in committed : SameKey(c, w)}

\* C3: whatever the interleaving of the refreshes, the committed table holds
\* for every key written by a committed batch exactly one row, that row is
\* one of the committed writes of the key, and its validFrom is the greatest
\* validFrom committed for the key; and every row of the table is a
\* committed write.
C3_NewestWins ==
    /\ \A w \in committed :
         /\ Cardinality(RowsOf(table, w)) = 1
         /\ \A r \in RowsOf(table, w) :
              /\ table[r] = 1
              /\ r \in CommittedOf(w)
              /\ \A c \in CommittedOf(w) : c.validFrom <= r.validFrom
    /\ \A r \in DOMAIN table : r \in committed

\* C3 witness: two refreshes contend for the mutex, each with records to
\* write, after two versions of one key were committed and the newer is the
\* one stored.
C3_ContendingRefreshes ==
    \E p, q \in Procs :
        /\ p # q
        /\ loc[p].pc = "lock" /\ loc[p].batch # <<>>
        /\ mutex = q /\ loc[q].pc = "tx" /\ loc[q].batch # <<>>
        /\ \E w1, w2 \in committed :
             /\ SameKey(w1, w2)
             /\ w1.validFrom < w2.validFrom
             /\ RowsOf(table, w1) = {w2}

\* C4: in every reachable state no two rows of the Attributes table (nor of
\* the rows an open transaction sees) share (id, affiliation,
\* attributeName).
C4_KeyUnique ==
    /\ \A r \in DOMAIN table : CountRows(table, r.id, r.affiliation, r.attributeName) = 1
    /\ \A p \in Procs : \A r \in DOMAIN tx[p].rows :
         CountRows(tx[p].rows, r.id, r.affiliation, r.attributeName) = 1

\* C4 witness: a batch holding the same key twice has been applied in full
\* and its transaction sees one row of that key.
C4_SameKeyTwiceInBatch ==
    \E p \in Procs :
        /\ loc[p].pc = "tx"
        /\ Len(loc[p].batch) = 2
        /\ loc[p].k = 3
        /\ loc[p].batch[1] # loc[p].batch[2]
        /\ SameKey(loc[p].batch[1], loc[p].batch[2])
        /\ Cardinality(RowsOf(tx[p].rows, loc[p].batch[1])) = 1

\* A RequestAttributes call has returned.
Answered(p) == loc[p].pc = "done" /\ loc[p].op = "Request"

\* A RequestAttributes call has returned after verification, refresh,
\* matching and certificate creation all succeeded.
Issued(p) == Answered(p) /\ "newCert" \in loc[p].steps /\ loc[p].failed = "none"

\* The number of requested names that matched a stored record, and the
\* number of requested names.
Matched(p) == Len(loc[p].attributes)
Requested(p) == Len(loc[p].names)

\* The status the last lines of RequestAttributes give to verifyCounter
\* matches out of count requested names: the zero test comes first.
Outcome(p) ==
    IF Matched(p) = 0 THEN "NO_ATTRIBUTES_FOUND"
    ELSE IF Matched(p) = Requested(p) THEN "FULL_SUCCESSFUL"
    ELSE "PARTIAL_SUCCESSFUL"

\* C5 as stated: when verification, refresh and certificate creation
\* succeed, the status is NO_ATTRIBUTES_FOUND if zero requested names
\* matched, FULL_SUCCESSFUL if every one matched, PARTIAL_SUCCESSFUL
\* otherwise, and a certificate is returned.
C5_Classification_AsStated ==
    \A p \in Procs : Issued(p) =>
        /\ loc[p].resp.status = Outcome(p)
        /\ ~loc[p].resp.cert.nil

\* C5: when verification, refresh and certificate creation succeed and the
\* response is serialized and signed, the status is NO_ATTRIBUTES_FOUND if
\* zero requested names matched, FULL_SUCCESSFUL if every one matched,
\* PARTIAL_SUCCESSFUL otherwise, and a certificate of the caller is returned.
C5_Classification ==
    \A p \in Procs : (Issued(p) /\ loc[p].resp.signed) =>
        /\ loc[p].resp.status = Outcome(p)
        /\ ~loc[p].resp.cert.nil
        /\ loc[p].resp.cert.id = loc[p].owner.id

\* C5 witness: two names requested, one matched, answered PARTIAL_SUCCESSFUL
\* with a certificate.
C5_PartialAnswer ==
    \E p \in Procs :
        /\ Issued(p) /\ loc[p].resp.signed
        /\ Requested(p) = 2 /\ Matched(p) = 1
        /\ loc[p].resp.status = "PARTIAL_SUCCESSFUL"
        /\ ~loc[p].resp.cert.nil

\* C6 as stated: a correctly signed RequestAttributes call with an empty
\* attribute list is accepted and answered FULL_SUCCESSFUL.
C6_EmptyList_AsStated ==
    \A p \in Procs :
        (Issued(p) /\ loc[p].resp.signed /\ loc[p].names = <<>>)
            => loc[p].resp.status = "FULL_SUCCESSFUL"

\* C6: a correctly signed RequestAttributes call with an empty attribute
\* list is accepted and answered NO_ATTRIBUTES_FOUND, with a certificate
\* that carries no attribute extension.
C6_EmptyList ==
    \A p \in Procs :
        (Issued(p) /\ loc[p].resp.signed /\ loc[p].names = <<>>)
            => /\ loc[p].resp.status = "NO_ATTRIBUTES_FOUND"
               /\ ~loc[p].resp.cert.nil
               /\ loc[p].resp.cert.exts = <<>>

\* C6 witness: an empty request was answered while the store held a record
\* of the caller.
C6_EmptyAnswered ==
    \E p \in Procs :
        /\ Issued(p) /\ loc[p].resp.signed /\ loc[p].names = <<>>
        /\ loc[p].resp.status = "NO_ATTRIBUTES_FOUND"
        /\ \E r \in DOMAIN table :
             r.id = loc[p].owner.id /\ r.affiliation = loc[p].owner.affiliation

\* C7 as stated: when two names are requested and both have a stored record
\* of the caller, one valid at the instant of the request and the other not,
\* the answer is PARTIAL_SUCCESSFUL and the certificate carries exactly one
\* attribute extension, that of the valid record.
C7_ValidityFiltering_AsStated ==
    \A p \in Procs :
        (Issued(p) /\ loc[p].resp.signed /\ Requested(p) = 2 /\ Matched(p) = 2) =>
            \A i, j \in 1..2 :
                (/\ IsValidFor(loc[p].attributes[i], Now)
                 /\ ~IsValidFor(loc[p].attributes[j], Now))
                => /\ loc[p].resp.status = "PARTIAL_SUCCESSFUL"
                   /\ Len(loc[p].resp.cert.exts) = 1
                   /\ loc[p].resp.cert.exts[1].AttributeName
                        = loc[p].attributes[i].attributeName

\* C7 witness: two names were requested, both were found, one of the found
\* records is not valid at the instant of the request, and the answer is
\* FULL_SUCCESSFUL with an extension for each.
C7_InvalidRecordCertified ==
    \E p \in Procs :
        /\ Issued(p) /\ loc[p].resp.signed
        /\ Requested(p) = 2 /\ Matched(p) = 2
        /\ \E i, j \in 1..2 :
             /\ IsValidFor(loc[p].attributes[i], Now)
             /\ ~IsValidFor(loc[p].attributes[j], Now)
        /\ loc[p].resp.status = "FULL_SUCCESSFUL"
        /\ Len(loc[p].resp.cert.exts) = 2

\* The list names some attribute more than once.
Repeats(names) == \E i, j \in DOMAIN names : i # j /\ names[i] = names[j]

ShortCircuits == {"verify", "parseCert", "parseEnrollID", "fetch", "populate"}

\* C9: when the signature does not verify, or the enrollment certificate or
\* its enrollment id does not parse, or the refresh fails (at the fetch or at
\* the store), RequestAttributes answers FAILURE with no certificate, and
\* neither the matching loop nor the certificate creation is run.
C9_FailureShortCircuit ==
    \A p \in Procs : (Answered(p) /\ loc[p].failed \in ShortCircuits) =>
        /\ loc[p].resp.status = "FAILURE"
        /\ loc[p].resp.cert.nil
        /\ loc[p].steps \cap {"find", "extensions", "newCert"} = {}
        /\ loc[p].attributes = <<>>

\* C9 witness: the store write of the refresh failed for a request that
\* named an attribute, and the request was answered FAILURE.
C9_RefreshFailed ==
    \E p \in Procs :
        /\ Answered(p)
        /\ loc[p].failed = "populate" /\ loc[p].failedAt >= 1
        /\ loc[p].names # <<>>
        /\ loc[p].resp.status = "FAILURE"

\* C10 as stated: when the request's signature does not verify against the
\* operation's trust root, FetchAttributes and RequestAttributes both return
\* a FAILURE status and no error.
C10_VerifyFailure_AsStated ==
    \A p \in Procs : (loc[p].pc = "done" /\ loc[p].failed = "verify") =>
        /\ loc[p].resp.status = "FAILURE"
        /\ ~loc[p].resp.err

\* C10 witness: RequestAttributes answered a signature that does not verify
\* with FAILURE and an error.
C10_RequestVerifyFailureIsError ==
    \E p \in Procs :
        /\ Answered(p)
        /\ loc[p].failed = "verify"
        /\ loc[p].resp.status = "FAILURE"
        /\ loc[p].resp.err

\* C11: every response RequestAttributes returns, on any path, carries a
\* signature made with the authority's key over that response with its
\* signature field blank (its status and certificate); the only unsigned
\* response has status FAILURE and no certificate.
C11_SignedOutcomes ==
    \A p \in Procs : Answered(p) =>
        IF loc[p].resp.signed
        THEN loc[p].resp.sig = SignatureOver("aca", loc[p].resp.status, loc[p].resp.cert)
        ELSE /\ loc[p].resp.sig = NoSig
             /\ loc[p].resp.status = "FAILURE"
             /\ loc[p].resp.cert.nil

\* C11 witness: a nil-field rejection was returned signed.
C11_SignedRejection ==
    \E p \in Procs :
        /\ Answered(p)
        /\ loc[p].failed = "nil"
        /\ loc[p].resp.status = "FAIL_NIL_TS"
        /\ loc[p].resp.sig = SignatureOver("aca", "FAIL_NIL_TS", NilCert)

\* The call of p is past its signature verification: the signature verified.
Accepted(p) ==
    /\ loc[p].op \in {"Fetch", "Request"}
    /\ "verify" \in loc[p].steps
    /\ loc[p].failed # "verify"

\* C12: FetchAttributes accepts a request only if its signature was made
\* with the eca key and RequestAttributes only if it was made with the tca
\* key; a request signed with the other authority's key is never accepted.
C12_TrustRootSeparation ==
    \A p \in Procs :
        /\ (Accepted(p) /\ loc[p].op = "Fetch") => loc[p].signer = "eca"
        /\ (Accepted(p) /\ loc[p].op = "Request") => loc[p].signer = "tca"
        /\ (loc[p].pc = "done" /\ loc[p].op = "Fetch" /\ loc[p].signer = "tca")
              => loc[p].resp.status = "FAILURE"
        /\ (loc[p].pc = "done" /\ loc[p].op = "Request" /\ loc[p].signer = "eca")
              => loc[p].resp.status = "FAILURE" /\ loc[p].resp.cert.nil

\* C12 witness: a FetchAttributes request signed with the tca key was
\* rejected at the signature verification.
C12_OtherRootRejected ==
    \E p \in Procs :
        /\ loc[p].pc = "done" /\ loc[p].op = "Fetch"
        /\ loc[p].signer = "tca"
        /\ loc[p].failed = "verify"
        /\ loc[p].resp.status = "FAILURE"

\* The statuses that report a failure.
FailureStatuses ==
    {"FAILURE", "FAIL_NIL_TS", "FAIL_NIL_ID", "FAIL_NIL_ECERT", "FAIL_NIL_SIGNATURE"}

\* C13: a FetchAttributes or RequestAttributes call whose timestamp,
\* enrollment certificate or signature is absent returns at once with a
\* failure status and no certificate, having read no root certificate,
\* verified no signature, run no refresh and touched no store, and the
\* table, the transactions and the mutex are as they were.
C13_MalformedRejected ==
    [][\A p \in Procs :
         (loc[p].pc = "idle" /\ loc'[p].pc # "idle" /\ loc'[p].absent # {})
         => /\ loc'[p].pc = "done"
            /\ loc'[p].resp.status \in FailureStatuses
            /\ loc'[p].resp.cert.nil
            /\ loc'[p].steps = {}
            /\ loc'[p].batch = <<>>
            /\ table' = table /\ tx' = tx /\ mutex' = mutex]_vars

\* C13 witness: a RequestAttributes call without signature was rejected
\* while the store held a record.
C13_NilSignatureRejected ==
    \E p \in Procs :
        /\ Answered(p)
        /\ loc[p].absent = {"Signature"}
        /\ loc[p].resp.status = "FAIL_NIL_SIGNATURE"
        /\ loc[p].steps = {}
        /\ table # EmptyBag

\* The RequestAttributes call of p has reached its matching loop.
ReachedMatching(p) ==
    /\ loc[p].op = "Request"
    /\ loc[p].pc = "match" \/ loc[p].steps \cap {"find", "extensions"} # {}

\* C14: a RequestAttributes call that has reached its matching loop has
\* verified its caller and completed fetchAndPopulateAttributes for that
\* caller without error earlier in the same call, and while it is in the
\* loop the table holds, for every record its own refresh committed, a row
\* of that record's key at least as new.
C14_RefreshPrecedesMatching ==
    \A p \in Procs : ReachedMatching(p) =>
        /\ Fetched \cup {"populate", "commit"} \subseteq loc[p].steps
        /\ loc[p].failed \in {"none", "newCert"}
        /\ \A b \in loc[p].refreshed :
             /\ b.id = loc[p].owner.id /\ b.affiliation = loc[p].owner.affiliation
             /\ loc[p].pc = "match" =>
                  \E r \in DOMAIN table : SameKey(r, b) /\ r.validFrom >= b.validFrom

\* C14 witness: a call is in its matching loop, has looked one name up, and
\* its own refresh committed a record that the table holds.
C14_MatchingAfterRefresh ==
    \E p \in Procs :
        /\ loc[p].op = "Request" /\ loc[p].pc = "match"
        /\ "find" \in loc[p].steps
        /\ \E b \in loc[p].refreshed : b \in DOMAIN table

\* The i-th application found the key of its record stored with a validFrom
\* not older than the record's.
StaleAt(i) ==
    \E r \in RowsOf(uHist[i], uLog[i]) : uLog[i].validFrom <= r.validFrom

\* C15: populateAttribute of a record whose key is stored with a validFrom
\* greater than or equal to the record's leaves the table as it was and
\* returns no error.
C15_StaleWriteNoOp ==
    \A i \in 1..Len(uLog) : StaleAt(i) => (uHist[i + 1] = uHist[i] /\ ~uErr[i])

\* C15 witness: a record older than the stored row of its key, with another
\* value, has been applied and the store is unchanged.
C15_OlderRecordDropped ==
    /\ Len(uLog) >= 1
    /\ \E r \in RowsOf(uHist[1], uLog[1]) :
         /\ uLog[1].validFrom < r.validFrom
         /\ uLog[1].attributeValue # r.attributeValue
    /\ uHist[2] = uHist[1]
    /\ ~uErr[1]

\* C16: applying populateAttribute to the same record twice in a row leaves
\* the table as the first application left it.
C16_UpsertIdempotent ==
    \A i \in 1..(Len(uLog) - 1) : uLog[i] = uLog[i + 1] => uHist[i + 2] = uHist[i + 1]

\* C16 witness: a record was applied twice; the first application changed
\* the store (an insert or an overwrite) and the second did not.
C16_AppliedTwice ==
    /\ Len(uLog) >= 2
    /\ uLog[1] = uLog[2]
    /\ uHist[2] # uHist[1]
    /\ uHist[3] = uHist[2]

\* C17 as stated: the certificate RequestAttributes issues carries exactly
\* one attribute extension per requested name that matched a stored record
\* of the caller, in the order matched, and none for any other name; with no
\* match it carries no attribute extension.
C17_ExtensionPerMatch_AsStated ==
    \A p \in Procs : (Issued(p) /\ ~loc[p].resp.cert.nil) =>
        /\ Len(loc[p].resp.cert.exts) = Matched(p)
        /\ \A i \in 1..Matched(p) :
             /\ loc[p].resp.cert.exts[i].AttributeName = loc[p].attributes[i].attributeName
             /\ loc[p].resp.cert.exts[i].AttributeValue = loc[p].attributes[i].attributeValue

\* C17 witness: the one requested name matched, the answer is
\* FULL_SUCCESSFUL, and the certificate carries no attribute extension.
C17_MatchedWithoutExtension ==
    \E p \in Procs :
        /\ Issued(p) /\ loc[p].resp.signed
        /\ Requested(p) = 1 /\ Matched(p) = 1
        /\ loc[p].resp.status = "FULL_SUCCESSFUL"
        /\ ~loc[p].resp.cert.nil
        /\ loc[p].resp.cert.exts = <<>>

\* The fetch of p's call has returned its records without error.
FetchReturned(p) == loc[p].pc = "lock" /\ "fetch" \in loc[p].steps

\* C18 as stated: when any tuple of the attribute source is malformed (fewer
\* than six fields, or a non-empty date that is not RFC3339), fetchAttributes
\* returns an error and no records, whichever identity is fetched: it
\* returns records only when every tuple of the source is well formed.
C18_ParseErrorsAbort_AsStated ==
    \A p \in Procs : FetchReturned(p) =>
        \A raw \in source : ~NewAttributePair(raw).err

\* C18 witness: the source holds a tuple of fewer than six fields and
\* fetchAttributes has returned the well-formed tuple of the caller.
C18_ShortTupleSkipped ==
    \E p \in Procs :
        /\ FetchReturned(p)
        /\ \E raw \in source : raw.n < MinFields
        /\ Len(loc[p].batch) = 1

\* A call of fetchAttributes by p has returned, with records or an error.
FetchCalled(p) == FetchReturned(p) \/ (loc[p].pc = "done" /\ loc[p].failed = "fetch")

\* The records fetchAttributes returned to p.
Returned(p) ==
    IF loc[p].failed = "fetch" THEN {}
    ELSE {loc[p].batch[j] : j \in 1..Len(loc[p].batch)}

\* The well-formed tuples of the source whose owner is the one p fetches for.
OwnTuples(p) ==
    {raw \in source :
        /\ ~NewAttributePair(raw).err
        /\ NewAttributePair(raw).pair.id = loc[p].owner.id
        /\ NewAttributePair(raw).pair.affiliation = loc[p].owner.affiliation}

\* C19 as stated: every record fetchAttributes(id, affiliation) returns has
\* that id and affiliation, and every well-formed tuple of the source with
\* that owner is returned.
C19_OwnerFiltering_AsStated ==
    \A p \in Procs : FetchCalled(p) =>
        /\ \A a \in Returned(p) :
             a.id = loc[p].owner.id /\ a.affiliation = loc[p].owner.affiliation
        /\ \A raw \in OwnTuples(p) : NewAttributePair(raw).pair \in Returned(p)

\* C19: when fetchAttributes(id, affiliation) returns without error, every
\* record it returns has that id and affiliation, and every well-formed
\* tuple of the source with that owner is returned, once.
C19_OwnerFiltering ==
    \A p \in Procs : FetchReturned(p) =>
        /\ \A a \in Returned(p) :
             a.id = loc[p].owner.id /\ a.affiliation = loc[p].owner.affiliation
        /\ Returned(p) = {NewAttributePair(raw).pair : raw \in OwnTuples(p)}
        /\ Len(loc[p].batch) = Cardinality(OwnTuples(p))

\* C19 witness: the source holds a tuple of the caller and a well-formed
\* tuple of another owner, and the fetch returned the caller's alone.
C19_OtherOwnerSkipped ==
    \E p \in Procs :
        /\ FetchReturned(p)
        /\ Cardinality(OwnTuples(p)) = 1
        /\ \E raw \in source \ OwnTuples(p) : ~NewAttributePair(raw).err
        /\ Len(loc[p].batch) = 1

\* C20: IsValidFor(t) is true exactly when (validFrom is unset or
\* validFrom <= t) and (validTo is unset or t < validTo); an instant equal
\* to validFrom is valid and an instant equal to validTo is not.
C20_ValidityWindow ==
    \A i \in 1..Len(vLog) :
        LET t == vLog[i].date IN
        /\ vLog[i].valid <=>
             /\ (vRec.validFrom = 0 \/ vRec.validFrom <= t)
             /\ (vRec.validTo = 0 \/ t < vRec.validTo)
        /\ (vRec.validFrom = t /\ (vRec.validTo = 0 \/ t < vRec.validTo)) => vLog[i].valid
        /\ (vRec.validTo = t /\ vRec.validTo # 0) => ~vLog[i].valid

\* C20 witness: a record with both bounds set was asked for its validFrom
\* and answered valid, then for its validTo and answered not valid.
C20_Boundaries ==
    /\ Len(vLog) = 2
    /\ 0 < vRec.validFrom /\ vRec.validFrom < vRec.validTo
    /\ vLog[1].date = vRec.validFrom /\ vLog[1].valid
    /\ vLog[2].date = vRec.validTo /\ ~vLog[2].valid

\* C21: in FetchAttributes and RequestAttributes, whenever the signature is
\* verified, r and s are those of the request's signature, the request that
\* was serialized and hashed had its signature field blank, and a request is
\* accepted only if its signature was made over that blank form.
C21_ClearThenHash ==
    \A p \in Procs :
        (loc[p].op \in {"Fetch", "Request"} /\ "verify" \in loc[p].steps) =>
            /\ loc[p].hashed = "blank"
            /\ loc[p].signer # "none" \/ loc[p].failed = "verify"
            /\ Accepted(p) => loc[p].over = "blank"

\* C21 witness: a RequestAttributes call signed by the tca key over the
\* request with its signature field blank got past verification, and the
\* form hashed was the blank one.
C21_VerifiedOverBlank ==
    \E p \in Procs :
        /\ loc[p].op = "Request" /\ Accepted(p)
        /\ loc[p].signer = "tca" /\ loc[p].over = "blank"
        /\ loc[p].hashed = "blank"

\* A refresh has applied some of its batch inside its open transaction.
BatchInProgress(q) == tx[q].open /\ tx[q].rows # tx[q].base

\* C22: a lookup of the matching loop sees committed rows only, never the
\* rows of a batch still in progress, and all the lookups one matching loop
\* has made are explained by one committed state of the store: each gave what
\* the committed table holds for that name, whatever refresh has committed or
\* is in progress meanwhile.
C22_ConsistentReads ==
    \A p \in Procs :
        loc[p].op = "Request" =>
            \A seen \in loc[p].view :
                seen.rows = findAttribute(table, loc[p].owner, seen.name)

\* C22 witness: a matching loop is between two lookups while a concurrent
\* refresh has applied part of its batch in a transaction not yet committed.
C22_LookupDuringBatch ==
    \E p \in Procs, q \in Procs :
        /\ p # q
        /\ loc[p].pc = "match" /\ loc[p].view # {}
        /\ loc[p].i <= Len(loc[p].names)
        /\ BatchInProgress(q)
        /\ loc[q].k <= Len(loc[q].batch)

\* The first n arcs of an identifier.
Arcs(oid, n) == [i \in 1..n |-> oid[i]]

\* C23: the extensions addAttributesToExtensions produces have pairwise
\* distinct identifiers, the i-th produced (from 0) has identifier
\* 1.2.3.4.5.6.(11+i), IsAttributeOID answers true for each of them, and it
\* answers false for the base identifier 1.2.3.4.5.6.10 and for every
\* identifier of another length or another prefix.
C23_ExtensionOIDs ==
    /\ \A i \in 1..Len(xExts) :
         /\ xExts[i].Id = <<1, 2, 3, 4, 5, 6, 11 + (i - 1)>>
         /\ \A j \in 1..Len(xExts) : i # j => xExts[i].Id # xExts[j].Id
    /\ \A n \in 1..Len(xLog) :
         LET oid == xLog[n].oid IN
         /\ (\E i \in 1..Len(xExts) : xExts[i].Id = oid) => xLog[n].is
         /\ oid = <<1, 2, 3, 4, 5, 6, 10>> => ~xLog[n].is
         /\ Len(oid) # 7 => ~xLog[n].is
         /\ (Len(oid) = 7 /\ Arcs(oid, 6) # <<1, 2, 3, 4, 5, 6>>) => ~xLog[n].is

\* C23 witness: of three matched attributes the second did not marshal, two
\* extensions were produced, and IsAttributeOID accepted the identifier of
\* the second and refused the base identifier.
C23_SecondAcceptedBaseRefused ==
    /\ Len(xIn.attributes) = 3 /\ xIn.marshals = {1, 3} /\ Len(xExts) = 2
    /\ Len(xLog) = 2
    /\ xLog[1].oid = xExts[2].Id /\ xLog[1].is
    /\ xLog[2].oid = ACAAttribute /\ ~xLog[2].is

\* C24: whatever the calls and their interleaving, a key stored in the
\* committed table is stored after every step (no committed operation deletes
\* a row), and the validFrom stored under the key never decreases.
C24_StoreMonotone ==
    [][\A r \in DOMAIN table :
         /\ RowsOf(table', r) # {}
         /\ \A r2 \in RowsOf(table', r) : r.validFrom <= r2.validFrom]_vars

\* C24 witness: a RequestAttributes call has committed a batch holding an
\* older record of a key, and the table holds a newer record under that key.
C24_OlderCommittedNewerKept ==
    \E p \in Procs :
        /\ loc[p].op = "Request" /\ "commit" \in loc[p].steps
        /\ \E a \in loc[p].refreshed, r \in DOMAIN table :
             SameKey(r, a) /\ a.validFrom < r.validFrom

\* The extension carries the name, value and validity of the record.
Carries(ext, r) ==
    /\ ext.AttributeName = r.attributeName
    /\ ext.AttributeValue = r.attributeValue
    /\ ext.ValidFrom = r.validFrom
    /\ ext.ValidTo = r.validTo

\* C25: every attribute in a certificate RequestAttributes returns is a
\* record stored under the (id, affiliation) recovered from the enrollment
\* certificate of that request and under a name of that request's list; the
\* certificate carries no attribute of another owner or of a name not asked.
C25_CallerOnly ==
    \A p \in Procs :
        (Answered(p) /\ ~loc[p].resp.cert.nil) =>
            LET exts == loc[p].resp.cert.exts IN
            \A i \in 1..Len(exts) :
                /\ \E n \in 1..Len(loc[p].names) : loc[p].names[n] = exts[i].AttributeName
                /\ \E r \in committed :
                     /\ r.id = loc[p].owner.id
                     /\ r.affiliation = loc[p].owner.affiliation
                     /\ Carries(exts[i], r)
                /\ \A r \in loc[p].view : \A x \in r.rows :
                     x.id = loc[p].owner.id /\ x.affiliation = loc[p].owner.affiliation

\* C25 witness: a certificate with an attribute was returned while the store
\* held a record of the same name for another owner.
C25_OtherOwnersRecordStored ==
    \E p \in Procs :
        /\ Answered(p) /\ ~loc[p].resp.cert.nil
        /\ Len(loc[p].resp.cert.exts) > 0
        /\ \E r \in DOMAIN table :
             /\ r.attributeName = loc[p].resp.cert.exts[1].AttributeName
             /\ r.id # loc[p].owner.id

\* The statuses left to a request of which one name at least did not match.
NotAllMatched == {"PARTIAL_SUCCESSFUL", "NO_ATTRIBUTES_FOUND"}

\* C26 as stated: a RequestAttributes call in whose matching loop a lookup
\* returned an error still returns a certificate, with status
\* PARTIAL_SUCCESSFUL or NO_ATTRIBUTES_FOUND, and never FAILURE.
C26_LookupErrors_AsStated ==
    \A p \in Procs :
        (Answered(p) /\ loc[p].errs # {}) =>
            /\ ~loc[p].resp.cert.nil
            /\ loc[p].resp.status \in NotAllMatched

\* C26: a lookup of the matching loop that returns an error is counted like
\* an absent record and ends nothing: the loop goes on, and when certificate
\* creation succeeds and the response is serialized and signed the request
\* returns a certificate with status PARTIAL_SUCCESSFUL or
\* NO_ATTRIBUTES_FOUND according to the remaining matches, and no error; the
\* only failures such a request can end in are those of certificate creation
\* and of serializing or signing the response.
C26_LookupErrors ==
    \A p \in Procs :
        (loc[p].op = "Request" /\ loc[p].errs # {}) =>
            /\ Matched(p) + Cardinality(loc[p].errs) <= Requested(p)
            /\ \A i \in 1..Matched(p) : loc[p].attributes[i].attributeName \notin loc[p].errs
            /\ loc[p].failed \in {"none", "newCert"}
            /\ (Issued(p) /\ loc[p].resp.signed) =>
                 /\ ~loc[p].resp.cert.nil
                 /\ loc[p].resp.status \in NotAllMatched
                 /\ loc[p].resp.status = Outcome(p)
                 /\ ~loc[p].resp.err

\* C26 witness: two names requested, the lookup of one failed although the
\* store holds a record for it, the other matched, and the answer is a signed
\* PARTIAL_SUCCESSFUL with a certificate.
C26_ErrorThenPartial ==
    \E p \in Procs :
        /\ Issued(p) /\ loc[p].resp.signed
        /\ Requested(p) = 2 /\ Matched(p) = 1
        /\ Cardinality(loc[p].errs) = 1
        /\ \E r \in DOMAIN table :
             /\ r.id = loc[p].owner.id /\ r.affiliation = loc[p].owner.affiliation
             /\ r.attributeName \in loc[p].errs
        /\ loc[p].resp.status = "PARTIAL_SUCCESSFUL"
        /\ ~loc[p].resp.cert.nil

====
